---- MODULE Spec2Model ----
(***************************************************************************)
(* Model of the resume structuring pipeline of                             *)
(* src/parsers/resume_analyzer.py: find_sections, extract_contact,         *)
(* call_llm, ensure_projects, ensure_certifications and the module's main  *)
(* block.                                                                  *)
(*                                                                         *)
(* Representation of text.  A line is a sequence of tokens; a token is a   *)
(* word, a punctuation mark, or " " which stands for one maximal run of    *)
(* blanks inside a line.  A string with line breaks is the sequence of its *)
(* lines, so "\n".join(xs) is xs itself (Join) and s.splitlines() is       *)
(* SplitLines(s).  The empty string is the empty sequence of lines.        *)
(***************************************************************************)
EXTENDS Naturals, Sequences, FiniteSets, TLC

VARIABLES
    raw,        \* the document text, as raw.splitlines() sees it
    sections,   \* the section map built by find_sections (<<>> before it ran)
    out,        \* the output record `out` of the main block
    pc,         \* position in the main block / harness
    calls,      \* trace of external service calls: <<[section, body]>>
    req,        \* arguments of the latest call_llm invocation
    stdout,     \* proc.stdout of the latest external call (<<>> if none)
    ret,        \* outcome of the latest call_llm / extract_contact invocation
    doc         \* doc.ents of the PERSON search of extract_contact, as
                \* <<[label, text]>> (<<>> when the search was not run)

vars == <<raw, sections, out, pc, calls, req, stdout, ret, doc>>

----------------------------------------------------------------------------
(* Sequences *)

Range(s) == {s[i] : i \in DOMAIN s}

SeqsUpTo(S, n) == UNION {[1..k -> S] : k \in 0..n}

Take(s, n) == SubSeq(s, 1, IF n < Len(s) THEN n ELSE Len(s))

Drop(s, n) == SubSeq(s, n + 1, Len(s))

RECURSIVE Concat(_)
Concat(ss) == IF ss = <<>> THEN <<>> ELSE Head(ss) \o Concat(Tail(ss))

----------------------------------------------------------------------------
(* Strings: str.strip, str.splitlines, str.join, str.lower, str.split *)

SP == " "

IsBlankLine(ln) == \A i \in DOMAIN ln : ln[i] = SP

RECURSIVE LStrip(_)
LStrip(ln) == IF ln # <<>> /\ Head(ln) = SP THEN LStrip(Tail(ln)) ELSE ln

RECURSIVE RStrip(_)
RStrip(ln) ==
    IF ln # <<>> /\ ln[Len(ln)] = SP THEN RStrip(SubSeq(ln, 1, Len(ln) - 1)) ELSE ln

\* ln.strip() of one line
Strip(ln) == RStrip(LStrip(ln))

RECURSIVE DropBlankHead(_)
DropBlankHead(t) ==
    IF t # <<>> /\ IsBlankLine(Head(t)) THEN DropBlankHead(Tail(t)) ELSE t

RECURSIVE DropBlankTail(_)
DropBlankTail(t) ==
    IF t # <<>> /\ IsBlankLine(t[Len(t)])
    THEN DropBlankTail(SubSeq(t, 1, Len(t) - 1)) ELSE t

\* s.strip() of a string with line breaks: blank lines at both ends go, then
\* the blanks that start the first line and end the last one.
TextStrip(t) ==
    LET core == DropBlankTail(DropBlankHead(t))
    IN  IF core = <<>> THEN <<>>
        ELSE IF Len(core) = 1 THEN <<Strip(core[1])>>
        ELSE <<LStrip(core[1])>> \o SubSeq(core, 2, Len(core) - 1)
             \o <<RStrip(core[Len(core)])>>

\* "\n".join(xs): the joined string has the lines xs; joining one empty
\* line, or nothing, gives the empty string.
Join(xs) == IF xs = << <<>> >> THEN <<>> ELSE xs

\* s.splitlines(): a final line break opens no further line.
SplitLines(t) ==
    IF t # <<>> /\ t[Len(t)] = <<>> THEN SubSeq(t, 1, Len(t) - 1) ELSE t

\* str.lower() of a token, on the vocabulary of the model
Lower(tok) ==
    CASE tok = "Education" -> "education"
      [] tok = "EDUCATION" -> "education"
      [] tok = "Skills" -> "skills"
      [] tok = "Experience" -> "experience"
      [] tok = "Work" -> "work"
      [] tok = "Projects" -> "projects"
      [] tok = "Project" -> "project"
      [] tok = "Certifications" -> "certifications"
      [] tok = "Contact" -> "contact"
      [] tok = "Information" -> "information"
      [] tok = "Target" -> "target"
      [] tok = "Title" -> "title"
      [] tok = "Summary" -> "summary"
      [] tok = "Developed" -> "developed"
      [] tok = "Built" -> "built"
      [] tok = "Certified" -> "certified"
      [] tok = "Certificate" -> "certificate"
      [] tok = "Managed" -> "managed"
      [] tok = "AWS" -> "aws"
      [] tok = "Python" -> "python"
      [] tok = "Scrum" -> "scrum"
      [] tok = "BSc" -> "bsc"
      [] tok = "Physics" -> "physics"
      [] tok = "Jane" -> "jane"
      [] tok = "DOE" -> "doe"
      [] tok = "Rabat" -> "rabat"
      [] tok = "Morocco" -> "morocco"
      [] tok = "Mail" -> "mail"
      [] OTHER -> tok

LowerLine(ln) == [i \in DOMAIN ln |-> Lower(ln[i])]

\* len(ln.split()): the number of maximal runs of non-blank tokens
WordCount(ln) ==
    Cardinality({i \in DOMAIN ln : ln[i] # SP /\ (i = 1 \/ ln[i - 1] = SP)})

----------------------------------------------------------------------------
(* SECTION_ORDER and HEADING_PATTERNS *)

SECTION_ORDER ==
    << "Contact Information", "Target Title", "Professional Summary",
       "Work Experience", "Education", "Skills & Interests", "Certifications",
       "Awards & Scholarships", "Projects", "Volunteering & Leadership",
       "Publications" >>

SectionNames == Range(SECTION_ORDER)

\* The alternatives of each heading pattern, as lower-case token sequences;
\* an optional run of blanks (\s*) gives one alternative with it and one
\* without.
HEADING_PATTERNS(name) ==
    CASE name = "Contact Information" -> {<<"contact", SP, "information">>}
      [] name = "Target Title" -> {<<"target", SP, "title">>}
      [] name = "Professional Summary" ->
            {<<"professional", SP, "summary">>, <<"summary">>, <<"profile">>}
      [] name = "Work Experience" ->
            {<<"work", SP, "experience">>, <<"experience">>,
             <<"professional", SP, "experience">>}
      [] name = "Education" -> {<<"education">>}
      [] name = "Skills & Interests" ->
            {<<"skills", "&", "interests">>, <<"skills", SP, "&", "interests">>,
             <<"skills", "&", SP, "interests">>,
             <<"skills", SP, "&", SP, "interests">>,
             <<"skills", SP, "and", SP, "interests">>,
             <<"skills">>, <<"interests">>, <<"compétences">>}
      [] name = "Certifications" ->
            {<<"certifications">>, <<"certification">>, <<"certificats">>,
             <<"certificat">>}
      [] name = "Awards & Scholarships" ->
            {<<"awards">>, <<"scholarships">>, <<"récompenses">>}
      [] name = "Projects" ->
            {<<"projects">>, <<"project">>, <<"projets">>, <<"projet">>}
      [] name = "Volunteering & Leadership" ->
            {<<"volunteering">>, <<"leadership">>, <<"bénévolat">>}
      [] name = "Publications" -> {<<"publications">>, <<"publication">>}

\* What may follow the pattern: \s*:?\s*$ on a stripped line
HeadingTails == {<<>>, <<":">>, <<SP, ":">>}

\* re.match(rf"^{pat}\s*:?\s*$", ln, flags=re.I): the line, in lower case,
\* is an alternative of the pattern followed by one of the tails
MatchesHeading(ln, name) ==
    \E low \in {LowerLine(ln)} : \E tl \in HeadingTails :
        /\ Len(tl) <= Len(low)
        /\ SubSeq(low, Len(low) - Len(tl) + 1, Len(low)) = tl
        /\ SubSeq(low, 1, Len(low) - Len(tl)) \in HEADING_PATTERNS(name)

----------------------------------------------------------------------------
(* find_sections *)

\* Python's order of the section names as strings
NamesInStringOrder ==
    << "Awards & Scholarships", "Certifications", "Contact Information",
       "Education", "Professional Summary", "Projects", "Publications",
       "Skills & Interests", "Target Title", "Volunteering & Leadership",
       "Work Experience" >>

NameBefore(a, b) ==
    \E i, j \in DOMAIN NamesInStringOrder :
        NamesInStringOrder[i] = a /\ NamesInStringOrder[j] = b /\ i < j

\* markers, sorted: Python sorts the (i, name) pairs by line index and then
\* by name; the names a single line matches are listed in string order.
RECURSIVE NamesSorted(_)
NamesSorted(S) ==
    IF S = {} THEN <<>>
    ELSE LET n == CHOOSE a \in S : \A b \in S : a = b \/ NameBefore(a, b)
         IN  <<n>> \o NamesSorted(S \ {n})

RECURSIVE MarkersFrom(_, _)
MarkersFrom(lines, i) ==
    IF i > Len(lines) THEN <<>>
    ELSE LET here == {n \in SectionNames : MatchesHeading(lines[i], n)}
             ms == NamesSorted(here)
         IN  [k \in DOMAIN ms |-> [idx |-> i, name |-> ms[k]]]
             \o MarkersFrom(lines, i + 1)

Markers(lines) == MarkersFrom(lines, 1)

\* a span that starts at the heading line instead of after it
RECURSIVE AssignSpansFromHeading(_, _, _, _)
AssignSpansFromHeading(secs, lines, markers, k) ==
    IF k > Len(markers) THEN secs
    ELSE LET start == markers[k].idx
             end == IF k < Len(markers) THEN markers[k + 1].idx
                    ELSE Len(lines) + 1
             body == TextStrip(Join(SubSeq(lines, start, end - 1)))
         IN  AssignSpansFromHeading([secs EXCEPT ![markers[k].name] = body],
                                    lines, markers, k + 1)

\* the loop keeping the first span of a name: a later marker of a name
\* already met assigns nothing
RECURSIVE AssignSpansFirstWins(_, _, _, _)
AssignSpansFirstWins(secs, lines, markers, k) ==
    IF k > Len(markers) THEN secs
    ELSE LET start == markers[k].idx
             end == IF k < Len(markers) THEN markers[k + 1].idx
                    ELSE Len(lines) + 1
             body == TextStrip(Join(SubSeq(lines, start + 1, end - 1)))
             met == \E j \in 1..(k - 1) : markers[j].name = markers[k].name
         IN  AssignSpansFirstWins(IF met THEN secs
                                  ELSE [secs EXCEPT ![markers[k].name] = body],
                                  lines, markers, k + 1)

\* the loop of line 88: marker k runs to marker k+1, the last one to
\* len(lines); a later assignment to the same name replaces an earlier one.
RECURSIVE AssignSpans(_, _, _, _)
AssignSpans(secs, lines, markers, k) ==
    IF k > Len(markers) THEN secs
    ELSE LET start == markers[k].idx
             end == IF k < Len(markers) THEN markers[k + 1].idx
                    ELSE Len(lines) + 1
             body == TextStrip(Join(SubSeq(lines, start + 1, end - 1)))
         IN  AssignSpans([secs EXCEPT ![markers[k].name] = body],
                         lines, markers, k + 1)

\* a map that holds only the sections whose heading was found
find_sections_sparse(text) ==
    LET lines == [i \in DOMAIN text |-> Strip(text[i])]
        ms == Markers(lines)
        full == AssignSpans([k \in SectionNames |-> <<>>], lines, ms, 1)
    IN  [k \in {ms[i].name : i \in DOMAIN ms} |-> full[k]]

find_sections(text) ==
    LET lines == [i \in DOMAIN text |-> Strip(text[i])]
    IN  AssignSpans([k \in SectionNames |-> <<>>], lines, Markers(lines), 1)

----------------------------------------------------------------------------
(* JSON values and the external service's responses *)

\* A JSON value: its type, its size (elements, characters or keys; the
\* number itself; 1 for true) and, for an object, the map of its members.
JArray(n) == [kind |-> "array", len |-> n, body |-> <<>>]
JString(n) == [kind |-> "string", len |-> n, body |-> <<>>]
JNumber(n) == [kind |-> "number", len |-> n, body |-> <<>>]
JBool(b) == [kind |-> "bool", len |-> IF b THEN 1 ELSE 0, body |-> <<>>]
JNull == [kind |-> "null", len |-> 0, body |-> <<>>]
JObject(f) == [kind |-> "object", len |-> Cardinality(DOMAIN f), body |-> f]

\* bool(v) in Python
Truthy(v) == v.kind # "null" /\ v.len > 0

\* proc.stdout is a sequence of tokens: commentary without braces, an
\* opening brace, a closing brace, or one member `"key": value` of an
\* object (a value's own braces are inside it and balanced).
TText == [t |-> "text", key |-> "", val |-> JNull]
TOpen == [t |-> "{", key |-> "", val |-> JNull]
TClose == [t |-> "}", key |-> "", val |-> JNull]
TMember(k, v) == [t |-> "member", key |-> k, val |-> v]

\* re.search(r"\{.*\}", stdout, flags=re.S): from the first opening brace
\* that has a closing brace after it to the last closing brace
HasBraceSpan(s) ==
    \E i, j \in DOMAIN s : i < j /\ s[i] = TOpen /\ s[j] = TClose

BraceSpan(s) ==
    LET i == CHOOSE a \in DOMAIN s :
                 /\ s[a] = TOpen
                 /\ \E b \in DOMAIN s : a < b /\ s[b] = TClose
                 /\ \A c \in 1..(a - 1) :
                       ~(s[c] = TOpen /\ \E b \in DOMAIN s : c < b /\ s[b] = TClose)
        j == CHOOSE b \in DOMAIN s :
                 s[b] = TClose /\ \A c \in DOMAIN s : s[c] = TClose => c <= b
    IN  SubSeq(s, i, j)

\* json.loads accepts the span: one object, members between its braces
IsJsonObject(span) ==
    /\ Len(span) >= 2
    /\ span[1] = TOpen
    /\ span[Len(span)] = TClose
    /\ \A i \in 2..(Len(span) - 1) : span[i].t = "member"

\* json.loads(span): the dict of the members, a repeated key keeping its
\* last value
RECURSIVE LoadMembers(_, _, _)
LoadMembers(d, span, i) ==
    IF i >= Len(span) THEN d
    ELSE LoadMembers([k \in DOMAIN d \cup {span[i].key} |->
                         IF k = span[i].key THEN span[i].val ELSE d[k]],
                     span, i + 1)

JsonLoads(span) == LoadMembers(<<>>, span, 2)

----------------------------------------------------------------------------
(* call_llm *)

\* the value returned for no result: [] or, for the summary, ""
EmptyResult(section) ==
    IF section # "Professional Summary" THEN JArray(0) ELSE JString(0)

\* PROMPTS.get(section, generic)
PromptFor(section) ==
    IF section \in {"Professional Summary", "Skills & Interests",
                    "Certifications", "Projects"}
    THEN section ELSE "generic"

Returned(v, called, note) ==
    [kind |-> "return", value |-> v, called |-> called, note |-> note]

\* before any invocation
NoRet == [kind |-> "none", value |-> JNull, called |-> FALSE, note |-> ""]
NoReq == [section |-> "", body |-> <<>>]

Raised(called) ==
    [kind |-> "raise", value |-> JNull, called |-> called, note |-> ""]

\* call_llm without the except clause: json.JSONDecodeError propagates
call_llm_uncaught(section, body, response) ==
    IF TextStrip(body) = <<>>
    THEN Returned(EmptyResult(section), FALSE, "")
    ELSE IF ~HasBraceSpan(response)
    THEN Returned(EmptyResult(section), TRUE, "no JSON found")
    ELSE IF ~IsJsonObject(BraceSpan(response))
    THEN Raised(TRUE)
    ELSE LET parsed == JsonLoads(BraceSpan(response))
         IN  Returned(IF section \in DOMAIN parsed THEN parsed[section]
                      ELSE JObject(parsed),
                      TRUE, "")

\* call_llm testing `if not body` instead of `if not body.strip()`
call_llm_unstripped(section, body, response) ==
    IF body = <<>>
    THEN Returned(EmptyResult(section), FALSE, "")
    ELSE IF ~HasBraceSpan(response)
    THEN Returned(EmptyResult(section), TRUE, "no JSON found")
    ELSE IF ~IsJsonObject(BraceSpan(response))
    THEN Returned(EmptyResult(section), TRUE, "invalid JSON")
    ELSE LET parsed == JsonLoads(BraceSpan(response))
         IN  Returned(IF section \in DOMAIN parsed THEN parsed[section]
                      ELSE JObject(parsed),
                      TRUE, "")

\* call_llm with parsed[section] instead of parsed.get(section, parsed):
\* a missing key raises KeyError
call_llm_subscript(section, body, response) ==
    IF TextStrip(body) = <<>>
    THEN Returned(EmptyResult(section), FALSE, "")
    ELSE IF ~HasBraceSpan(response)
    THEN Returned(EmptyResult(section), TRUE, "no JSON found")
    ELSE IF ~IsJsonObject(BraceSpan(response))
    THEN Returned(EmptyResult(section), TRUE, "invalid JSON")
    ELSE LET parsed == JsonLoads(BraceSpan(response))
         IN  IF section \in DOMAIN parsed
             THEN Returned(parsed[section], TRUE, "")
             ELSE Raised(TRUE)

\* call_llm without the `if not m` test: m.group() on no match raises
call_llm_unchecked_match(section, body, response) ==
    IF TextStrip(body) = <<>>
    THEN Returned(EmptyResult(section), FALSE, "")
    ELSE IF ~HasBraceSpan(response)
    THEN Raised(TRUE)
    ELSE IF ~IsJsonObject(BraceSpan(response))
    THEN Returned(EmptyResult(section), TRUE, "invalid JSON")
    ELSE LET parsed == JsonLoads(BraceSpan(response))
         IN  Returned(IF section \in DOMAIN parsed THEN parsed[section]
                      ELSE JObject(parsed),
                      TRUE, "")

\* call_llm(section, body) when the external service answers `response`
call_llm(section, body, response) ==
    IF TextStrip(body) = <<>>
    THEN Returned(EmptyResult(section), FALSE, "")
    ELSE IF ~HasBraceSpan(response)
    THEN Returned(EmptyResult(section), TRUE, "no JSON found")
    ELSE IF ~IsJsonObject(BraceSpan(response))
    THEN Returned(EmptyResult(section), TRUE, "invalid JSON")
    ELSE LET parsed == JsonLoads(BraceSpan(response))
         IN  Returned(IF section \in DOMAIN parsed THEN parsed[section]
                      ELSE JObject(parsed),
                      TRUE, "")

\* The effect of one call_llm invocation on the call trace and on the
\* record of the latest invocation.
Invoke(section, body, response) ==
    LET res == call_llm(section, body, response)
    IN  /\ req' = [section |-> section, body |-> body]
        /\ ret' = res
        /\ stdout' = IF res.called THEN response ELSE <<>>
        /\ calls' = IF res.called
                    THEN Append(calls, [section |-> section,
                                        prompt |-> PromptFor(section),
                                        body |-> body])
                    ELSE calls

----------------------------------------------------------------------------
(* The extraction harness: one call_llm invocation on any section, body
   and response *)

MaxResp == 4

RespTokens ==
    { TText, TOpen, TClose,
      TMember("Projects", JArray(1)),
      TMember("Projects", JString(1)),
      TMember("Professional Summary", JString(1)),
      TMember("Programming Languages", JArray(1)) }

Responses == SeqsUpTo(RespTokens, MaxResp)

Bodies ==
    { <<>>, << <<SP>> >>, << <<SP>>, <<>> >>,
      << <<"Developed", SP, "a", SP, "tool">> >> }

LLMStep ==
    /\ pc = "call"
    /\ \E r \in Responses : Invoke(req.section, req.body, r)
    /\ pc' = "returned"
    /\ UNCHANGED <<raw, doc, sections, out>>

InitLLM ==
    /\ raw = <<>>
    /\ sections = <<>>
    /\ out = <<>>
    /\ pc = "call"
    /\ calls = <<>>
    /\ req \in [section : SectionNames, body : Bodies]
    /\ stdout = <<>>
    /\ ret = NoRet
    /\ doc = <<>>

NextLLM == LLMStep

SpecLLM == InitLLM /\ [][NextLLM]_vars

----------------------------------------------------------------------------
(* ensure_projects and ensure_certifications *)

ProjectKeywords == {"project", "built", "developed", "created", "designed"}

\* a word that holds "cert" without being a keyword by itself
CertWords ==
    {"cert", "certified", "certificate", "certification", "certifications",
     "certificat", "certificats", "concert"}

\* words that hold a project keyword as a part only
ProjectCompounds == {"projects", "projets", "redesigned", "prebuilt"}

\* a project keyword as a substring, not as a whole word
HasProjectSubstring(ln) ==
    \E i \in DOMAIN ln : Lower(ln[i]) \in ProjectKeywords \cup ProjectCompounds

\* re.search(r"\b(project|built|developed|created|designed)\b", ln, re.I)
HasProjectKeyword(ln) == \E i \in DOMAIN ln : Lower(ln[i]) \in ProjectKeywords

\* "cert" in ln.lower()
HasCert(ln) == \E i \in DOMAIN ln : Lower(ln[i]) \in CertWords

\* sections.get(key, "")
SectionGet(secs, key) == IF key \in DOMAIN secs THEN secs[key] ELSE <<>>

ProjectCandidates(secs) ==
    SelectSeq(SplitLines(secs["Work Experience"]), HasProjectKeyword)

CertificationCandidates(secs) ==
    SelectSeq(SplitLines(SectionGet(secs, "Skills & Interests")), HasCert)
    \o SelectSeq(SplitLines(SectionGet(secs, "Work Experience")), HasCert)

\* an enrichment rule without its first test: it re-extracts even when the
\* value is already there
EnsureUnguarded(key, candidate, response, nextpc) ==
    IF candidate = <<>>
    THEN /\ pc' = nextpc
         /\ UNCHANGED <<out, calls, req, stdout, ret>>
    ELSE LET parsed == call_llm(key, Join(candidate), response)
         IN  /\ Invoke(key, Join(candidate), response)
             /\ out' = IF parsed.kind = "return" /\ Truthy(parsed.value)
                       THEN [out EXCEPT ![key] = parsed.value]
                       ELSE out
             /\ pc' = IF parsed.kind = "raise" THEN "aborted" ELSE nextpc

\* One enrichment rule: nothing when the value is already there or no line
\* qualifies; otherwise one call_llm invocation whose result, if true,
\* replaces the value.  An exception leaving call_llm ends the program.
Ensure(key, candidate, response, nextpc) ==
    IF Truthy(out[key]) \/ candidate = <<>>
    THEN /\ pc' = nextpc
         /\ UNCHANGED <<out, calls, req, stdout, ret>>
    ELSE LET parsed == call_llm(key, Join(candidate), response)
         IN  /\ Invoke(key, Join(candidate), response)
             /\ out' = IF parsed.kind = "return" /\ Truthy(parsed.value)
                       THEN [out EXCEPT ![key] = parsed.value]
                       ELSE out
             /\ pc' = IF parsed.kind = "raise" THEN "aborted" ELSE nextpc

\* the responses the multi-call specifications draw from: no brace, braces
\* around commentary, and objects with and without the section keys
SampleResponses ==
    { <<TText>>,
      <<TText, TOpen, TText, TClose>>,
      <<TOpen, TClose>>,
      <<TText, TOpen, TMember("Projects", JArray(1)),
        TMember("Certifications", JArray(2)), TClose>>,
      <<TOpen, TMember("Title", JString(1)), TClose, TText>> }

\* line 266: ensure_projects(sections, out)
EnsureProjects ==
    /\ pc = "ensure_projects"
    /\ \E r \in SampleResponses :
          Ensure("Projects", ProjectCandidates(sections), r, "ensure_certs")
    /\ UNCHANGED <<raw, doc, sections>>

\* line 267: ensure_certifications(sections, out)
EnsureCertifications ==
    /\ pc = "ensure_certs"
    /\ \E r \in SampleResponses :
          Ensure("Certifications", CertificationCandidates(sections), r,
                 "placeholders")
    /\ UNCHANGED <<raw, doc, sections>>

----------------------------------------------------------------------------
(* The enrichment harness: the two rules applied, pass after pass, to any
   section map and record *)

MaxBodyLines == 2
MaxCalls == 2

WorkLines ==
    { <<"Developed", SP, "an", SP, "internal", SP, "tool">>,
      <<"AWS", SP, "Certified">>,
      <<"Managed", SP, "projects">>,
      <<"Built", SP, "a", SP, "certificate", SP, "service">> }

SkillTexts == { <<>>, << <<"Python">> >>, << <<"Certified", SP, "Scrum">> >> }

RecordValues ==
    { JArray(0), JArray(1), JNull, JObject(<<>>),
      JObject([Title |-> JString(1)]) }

SampleContact ==
    [k \in {"First Name", "Last Name", "Email", "Phone", "Location"} |-> ""]

\* the record as the primary pass leaves it
PrimaryRecord(projects, certifications) ==
    [k \in {"Contact Information", "Target Title", "Professional Summary",
            "Work Experience", "Education", "Skills & Interests",
            "Certifications", "Projects"} |->
        CASE k = "Contact Information" -> SampleContact
          [] k = "Target Title" -> <<>>
          [] k = "Professional Summary" -> JString(0)
          [] k = "Projects" -> projects
          [] k = "Certifications" -> certifications
          [] OTHER -> JArray(0)]

\* the enrichment pass is run once more
RunAgain ==
    /\ pc = "placeholders"
    /\ Len(calls) < MaxCalls
    /\ pc' = "ensure_projects"
    /\ UNCHANGED <<raw, doc, sections, out, calls, req, stdout, ret>>

InitEnrich ==
    /\ raw = <<>>
    /\ \E w \in SeqsUpTo(WorkLines, MaxBodyLines) : \E s \in SkillTexts :
          sections = [k \in SectionNames |->
                         CASE k = "Work Experience" -> w
                           [] k = "Skills & Interests" -> s
                           [] OTHER -> <<>>]
    /\ \E p, c \in RecordValues : out = PrimaryRecord(p, c)
    /\ pc = "ensure_projects"
    /\ calls = <<>>
    /\ req = NoReq
    /\ stdout = <<>>
    /\ ret = NoRet
    /\ doc = <<>>

NextEnrich == EnsureProjects \/ EnsureCertifications \/ RunAgain

SpecEnrich == InitEnrich /\ [][NextEnrich]_vars

----------------------------------------------------------------------------
(* Documents of the segmentation harness *)

MaxLines == 4

SegLines ==
    { <<SP, "EDUCATION", SP, ":">>,
      <<"Skills">>,
      <<"Experience", ":">>,
      <<SP>>,
      <<SP, "Python", SP>>,
      <<"Education", SP, "history">> }

SegDocs == SeqsUpTo(SegLines, MaxLines)

----------------------------------------------------------------------------
(* The main block, step by step *)

\* line 239: sections = find_sections(raw)
Segment ==
    /\ pc = "segment"
    /\ sections' = find_sections(raw)
    /\ pc' = "contact"
    /\ UNCHANGED <<raw, doc, out, calls, req, stdout, ret>>

InitSeg ==
    /\ raw \in SegDocs
    /\ sections = <<>>
    /\ out = <<>>
    /\ pc = "segment"
    /\ calls = <<>>
    /\ req = NoReq
    /\ stdout = <<>>
    /\ ret = NoRet
    /\ doc = <<>>

NextSeg == Segment

SpecSeg == InitSeg /\ [][NextSeg]_vars

----------------------------------------------------------------------------
(* extract_contact *)

HeadWindow == 30      \* text.splitlines()[:30]
NameWindow == 10      \* lines[:10]
PersonWindow == 15    \* lines[:15]
LocationWindow == 12  \* lines[:12]

LOCATION_STOP ==
    {"morocco", "maroc", "rabat", "casablanca", "tanger", "agadir", "meknes",
     "fes", "marrakesh"}

\* EMAIL_RE.search on one token: the matched text, "" without match
EmailIn(tok) ==
    CASE tok = "jane.doe@mail.com" -> "jane.doe@mail.com"
      [] tok = "<ops@corp.io>" -> "ops@corp.io"
      [] OTHER -> ""

\* PHONE_RE.search on one token: the matched text, "" without match
PhoneIn(tok) ==
    CASE tok = "+212600000000" -> "+212600000000"
      [] tok = "(0537-770000)" -> "0537-770000"
      [] OTHER -> ""

RECURSIVE FirstNonEmpty(_)
FirstNonEmpty(s) ==
    IF s = <<>> THEN ""
    ELSE IF Head(s) # "" THEN Head(s) ELSE FirstNonEmpty(Tail(s))

\* the first match in a line, "" without match
EmailOfLine(ln) == FirstNonEmpty([i \in DOMAIN ln |-> EmailIn(ln[i])])
PhoneOfLine(ln) == FirstNonEmpty([i \in DOMAIN ln |-> PhoneIn(ln[i])])

\* line 101: the non-blank ones of the first 30 lines, stripped
HeadLines(text) ==
    LET first == Take(SplitLines(text), HeadWindow)
        kept == SelectSeq(first, LAMBDA ln : Strip(ln) # <<>>)
    IN  [i \in DOMAIN kept |-> Strip(kept[i])]

\* ln.split()
Words(ln) == SelectSeq(ln, LAMBDA tok : tok # SP)

\* " ".join(lines[:n]).split(), what the entity recogniser reads
WindowWords(lines, n) ==
    Concat([i \in DOMAIN Take(lines, n) |-> Words(lines[i])])

IsNameLine(ln) ==
    /\ 2 <= WordCount(ln)
    /\ WordCount(ln) <= 5
    /\ EmailOfLine(ln) = ""
    /\ PhoneOfLine(ln) = ""

\* HumanName(text).first and .last: the first word, and the last word of
\* two or more
HumanName(words) ==
    [first |-> IF words = <<>> THEN "" ELSE words[1],
     last |-> IF Len(words) >= 2 THEN words[Len(words)] ELSE ""]

\* str.title() of a word
Title(tok) ==
    CASE tok = "jane" -> "Jane"
      [] tok = "doe" -> "Doe"
      [] tok = "DOE" -> "Doe"
      [] tok = "ops" -> "Ops"
      [] tok = "rabat" -> "Rabat"
      [] OTHER -> tok

\* len() of a word
CharLen(tok) ==
    CASE tok = "Jane" -> 4
      [] tok = "DOE" -> 3
      [] tok = "Rabat" -> 5
      [] tok = "Morocco" -> 7
      [] tok = "Contact" -> 7
      [] tok = "Information" -> 11
      [] tok = "Education" -> 9
      [] tok = "jane.doe@mail.com" -> 17
      [] tok = "<ops@corp.io>" -> 13
      [] tok = "+212600000000" -> 13
      [] OTHER -> 1

\* len(ent.text)
RECURSIVE TextLen(_)
TextLen(words) ==
    IF words = <<>> THEN 0
    ELSE CharLen(Head(words)) + (IF Len(words) > 1 THEN 1 ELSE 0)
         + TextLen(Tail(words))

\* the names derived from the local part of an address: separators become
\* blanks and a blank goes between a lower-case and an upper-case letter
LocalWords(email) ==
    CASE email = "jane.doe@mail.com" -> <<"jane", "doe">>
      [] email = "ops@corp.io" -> <<"ops">>
      [] OTHER -> <<>>

\* What the entity recogniser may answer on a text: a short list of
\* entities, each a label and a span of one or two capitalised words of the
\* text (the first list for the PERSON search, the second for the location).
ProperWords == {"Jane", "DOE", "Rabat", "Morocco"}

ShortSpans(words) ==
    {s \in {SubSeq(words, i, j) : i \in DOMAIN words, j \in DOMAIN words} :
        /\ Len(s) \in {1, 2}
        /\ \A k \in DOMAIN s : s[k] \in ProperWords}

Entities(words) == [label : {"PERSON", "GPE"}, text : ShortSpans(words)]

NlpOutcomes(words) ==
    {<<>>} \cup {<<e>> : e \in Entities(words)}
    \cup {<<e, f>> : e \in {x \in Entities(words) : x.label = "PERSON"},
                     f \in {x \in Entities(words) :
                               x.label = "PERSON" /\ Len(x.text) = 2}}

NlpPlaces(words) ==
    {<<>>} \cup {<<e>> : e \in {x \in Entities(words) : x.label = "GPE"}}

\* max(ents, key=len): the first of the longest
Longest(ents) ==
    ents[CHOOSE i \in DOMAIN ents :
            /\ \A j \in DOMAIN ents : TextLen(ents[j]) <= TextLen(ents[i])
            /\ \A j \in 1..(i - 1) : TextLen(ents[j]) < TextLen(ents[i])]

\* extract_contact with the last two strategies in the other order: the
\* address is tried before the PERSON search
extract_contact_email_first(text, doc1, doc2) ==
    LET lines == HeadLines(text)
        emails == SelectSeq([i \in DOMAIN lines |-> EmailOfLine(lines[i])],
                            LAMBDA e : e # "")
        phones == SelectSeq([i \in DOMAIN lines |-> PhoneOfLine(lines[i])],
                            LAMBDA p : p # "")
        email == IF emails = <<>> THEN "" ELSE emails[1]
        phone == IF phones = <<>> THEN "" ELSE phones[1]
        named == SelectSeq(Take(lines, NameWindow), IsNameLine)
        persons == SelectSeq(doc1, LAMBDA e :
                       /\ e.label = "PERSON"
                       /\ Len(e.text) >= 2
                       /\ \A i \in DOMAIN e.text :
                             Lower(e.text[i]) \notin LOCATION_STOP)
        ents == [i \in DOMAIN persons |-> persons[i].text]
        human == IF named # <<>> THEN HumanName(Words(named[1]))
                 ELSE IF LocalWords(email) # <<>>
                 THEN HumanName(LocalWords(email))
                 ELSE IF ents # <<>> THEN HumanName(Longest(ents))
                 ELSE HumanName(<<>>)
        strategy == IF named # <<>> THEN "name line"
                    ELSE IF LocalWords(email) # <<>> THEN "email"
                    ELSE IF ents # <<>> THEN "person entity"
                    ELSE "email"
        places == SelectSeq(doc2, LAMBDA e : e.label = "GPE")
    IN  [record |->
            [k \in {"First Name", "Last Name", "Email", "Phone", "Location"}
                |-> CASE k = "First Name" -> <<Title(human.first)>>
                      [] k = "Last Name" -> <<Title(human.last)>>
                      [] k = "Email" -> <<email>>
                      [] k = "Phone" -> <<phone>>
                      [] k = "Location" ->
                            IF places = <<>> THEN <<"">> ELSE places[1].text],
         strategy |-> strategy]

\* extract_contact(text), the recogniser answering doc1 on lines[:15] and
\* doc2 on lines[:12]
extract_contact(text, doc1, doc2) ==
    LET lines == HeadLines(text)
        emails == SelectSeq([i \in DOMAIN lines |-> EmailOfLine(lines[i])],
                            LAMBDA e : e # "")
        phones == SelectSeq([i \in DOMAIN lines |-> PhoneOfLine(lines[i])],
                            LAMBDA p : p # "")
        email == IF emails = <<>> THEN "" ELSE emails[1]
        phone == IF phones = <<>> THEN "" ELSE phones[1]
        named == SelectSeq(Take(lines, NameWindow), IsNameLine)
        persons == SelectSeq(doc1, LAMBDA e :
                       /\ e.label = "PERSON"
                       /\ Len(e.text) >= 2
                       /\ \A i \in DOMAIN e.text :
                             Lower(e.text[i]) \notin LOCATION_STOP)
        ents == [i \in DOMAIN persons |-> persons[i].text]
        human == IF named # <<>> THEN HumanName(Words(named[1]))
                 ELSE IF ents # <<>> THEN HumanName(Longest(ents))
                 ELSE HumanName(LocalWords(email))
        strategy == IF named # <<>> THEN "name line"
                    ELSE IF ents # <<>> THEN "person entity"
                    ELSE "email"
        places == SelectSeq(doc2, LAMBDA e : e.label = "GPE")
    IN  [record |->
            [k \in {"First Name", "Last Name", "Email", "Phone", "Location"}
                |-> CASE k = "First Name" -> <<Title(human.first)>>
                      [] k = "Last Name" -> <<Title(human.last)>>
                      [] k = "Email" -> <<email>>
                      [] k = "Phone" -> <<phone>>
                      [] k = "Location" ->
                            IF places = <<>> THEN <<"">> ELSE places[1].text],
         strategy |-> strategy]

\* out[key] = value
Put(record, key, value) ==
    [k \in DOMAIN record \cup {key} |-> IF k = key THEN value ELSE record[k]]

\* extract_contact always run on the whole document
ContactTextWholeDocument == raw

\* the text the main block hands to extract_contact
ContactText ==
    IF sections["Contact Information"] # <<>>
    THEN sections["Contact Information"] ELSE raw

\* lines 244-248: out["Contact Information"] = extract_contact(...)
Contact ==
    /\ pc = "contact"
    /\ LET lines == HeadLines(ContactText)
       IN  \E doc1 \in NlpOutcomes(WindowWords(lines, PersonWindow)) :
           \E doc2 \in NlpPlaces(WindowWords(lines, LocationWindow)) :
              LET res == extract_contact(ContactText, doc1, doc2)
              IN  /\ out' = Put(out, "Contact Information", res.record)
                  /\ ret' = [kind |-> "return", value |-> JNull,
                             called |-> FALSE, note |-> res.strategy]
                  /\ doc' = IF res.strategy = "name line" THEN <<>>
                             ELSE doc1
    /\ pc' = "title"
    /\ UNCHANGED <<raw, sections, calls, req, stdout>>

----------------------------------------------------------------------------
(* The contact harness: find_sections, then the contact step *)

MaxTail == 2

ContactLines ==
    { <<"Jane", SP, "DOE">>,
      <<SP, "jane.doe@mail.com">>,
      <<"Jane", SP, "DOE", SP, "<ops@corp.io>", SP, "+212600000000">>,
      <<"Rabat", SP, "Morocco">>,
      <<"Contact", SP, "Information", ":">> }

Filler == <<"-">>

Pads == {0, NameWindow, PersonWindow, HeadWindow - 1, HeadWindow}

ContactDocs ==
    {a \o [i \in 1..n |-> Filler] \o b :
        a \in SeqsUpTo(ContactLines, 1), n \in Pads,
        b \in SeqsUpTo(ContactLines, MaxTail)}

InitContact ==
    /\ raw \in ContactDocs
    /\ sections = <<>>
    /\ out = <<>>
    /\ pc = "segment"
    /\ calls = <<>>
    /\ req = NoReq
    /\ stdout = <<>>
    /\ ret = NoRet
    /\ doc = <<>>

NextContact == Segment \/ Contact

SpecContact == InitContact /\ [][NextContact]_vars

----------------------------------------------------------------------------
(* The rest of the main block *)

\* lines 251-252: the first non-blank line of Target Title, as it is
TargetTitle ==
    /\ pc = "title"
    /\ LET tt_lines == SelectSeq(SplitLines(sections["Target Title"]),
                                 LAMBDA ln : Strip(ln) # <<>>)
       IN  out' = Put(out, "Target Title",
                      IF tt_lines # <<>> THEN tt_lines[1] ELSE <<>>)
    /\ pc' = "Professional Summary"
    /\ UNCHANGED <<raw, doc, sections, calls, req, stdout, ret>>

\* the statement after the extraction of each section
AfterSection(sec) ==
    CASE sec = "Professional Summary" -> "Work Experience"
      [] sec = "Work Experience" -> "Education"
      [] sec = "Education" -> "Skills & Interests"
      [] sec = "Skills & Interests" -> "Certifications"
      [] sec = "Certifications" -> "Projects"
      [] sec = "Projects" -> "ensure_projects"

\* the extraction of a section asking again when the response gave nothing
ExtractSectionRetrying(sec) ==
    /\ pc = sec
    /\ \E r \in SampleResponses :
          LET res == call_llm(sec, sections[sec], r)
          IN  /\ Invoke(sec, sections[sec], r)
              /\ out' = IF res.kind = "return" THEN Put(out, sec, res.value)
                        ELSE out
              /\ pc' = IF res.kind = "raise" THEN "aborted"
                       ELSE IF res.called /\ res.note # "" THEN sec
                       ELSE AfterSection(sec)
    /\ UNCHANGED <<raw, doc, sections>>

\* out[sec] = call_llm(sec, sections[sec]); an exception ends the program
ExtractSection(sec) ==
    /\ pc = sec
    /\ \E r \in SampleResponses :
          LET res == call_llm(sec, sections[sec], r)
          IN  /\ Invoke(sec, sections[sec], r)
              /\ out' = IF res.kind = "return" THEN Put(out, sec, res.value)
                        ELSE out
              /\ pc' = IF res.kind = "raise" THEN "aborted"
                       ELSE AfterSection(sec)
    /\ UNCHANGED <<raw, doc, sections>>

\* line 255
ExtractSummary == ExtractSection("Professional Summary")

\* lines 258-259
ExtractWorkEducation ==
    \E sec \in {"Work Experience", "Education"} : ExtractSection(sec)

\* lines 262-263
ExtractSkillsCertsProjects ==
    \E sec \in {"Skills & Interests", "Certifications", "Projects"} :
        ExtractSection(sec)

RECURSIVE SetDefaults(_, _, _)
SetDefaults(record, keys, k) ==
    IF k > Len(keys) THEN record
    ELSE SetDefaults(Put(record, keys[k],
                         IF keys[k] \in DOMAIN record THEN record[keys[k]]
                         ELSE JArray(0)),
                     keys, k + 1)

\* lines 270-276: out[sec] = out.get(sec, []) for the three sections without
\* extraction, then the record is written
Placeholders ==
    /\ pc = "placeholders"
    /\ out' = SetDefaults(out, <<"Awards & Scholarships",
                                 "Volunteering & Leadership",
                                 "Publications">>, 1)
    /\ pc' = "done"
    /\ UNCHANGED <<raw, doc, sections, calls, req, stdout, ret>>

----------------------------------------------------------------------------
(* The pipeline: the main block on any document, the external service
   answering each call with any of the sample responses *)

MaxDocLines == 4

DocLines ==
    { <<"Summary">>,
      <<"Experience", ":">>,
      <<"Projects">>,
      <<"Developed", SP, "a", SP, "certified", SP, "tool">> }

Documents == SeqsUpTo(DocLines, MaxDocLines)

Init ==
    /\ raw \in Documents
    /\ sections = <<>>
    /\ out = <<>>
    /\ pc = "segment"
    /\ calls = <<>>
    /\ req = NoReq
    /\ stdout = <<>>
    /\ ret = NoRet
    /\ doc = <<>>

Next ==
    \/ Segment
    \/ Contact
    \/ TargetTitle
    \/ ExtractSummary
    \/ ExtractWorkEducation
    \/ ExtractSkillsCertsProjects
    \/ EnsureProjects
    \/ EnsureCertifications
    \/ Placeholders

Spec == Init /\ [][Next]_vars

----------------------------------------------------------------------------
(* Properties of find_sections *)

ElevenSections ==
    { "Contact Information", "Target Title", "Professional Summary",
      "Work Experience", "Education", "Skills & Interests", "Certifications",
      "Awards & Scholarships", "Projects", "Volunteering & Leadership",
      "Publications" }

Segmented == pc # "segment"

\* line i of the document is a recognised heading
HeadingAt(i) == \E n \in SectionNames : MatchesHeading(Strip(raw[i]), n)

HeadingName(i) == CHOOSE n \in SectionNames : MatchesHeading(Strip(raw[i]), n)

HeadingIdx == {i \in DOMAIN raw : HeadingAt(i)}

DistinctHeadings ==
    \A i, j \in HeadingIdx : i # j => HeadingName(i) # HeadingName(j)

\* the next recognised heading after line i, or the end of the document
NextHeading(i) ==
    LET later == {j \in HeadingIdx : j > i}
    IN  IF later = {} THEN Len(raw) + 1
        ELSE CHOOSE j \in later : \A k \in later : j <= k

\* the lines strictly between heading i and the next heading, each stripped
Between(i) ==
    [k \in 1..(NextHeading(i) - i - 1) |-> Strip(raw[i + k])]

\* the same lines without the blank lines that start and end them
BetweenTrimmed(i) ==
    LET solid == {k \in (i + 1)..(NextHeading(i) - 1) : ~IsBlankLine(raw[k])}
        lo == CHOOSE k \in solid : \A m \in solid : k <= m
        hi == CHOOSE k \in solid : \A m \in solid : m <= k
    IN  IF solid = {} THEN <<>>
        ELSE [k \in 1..(hi - lo + 1) |-> Strip(raw[lo + k - 1])]

RECURSIVE SumLen(_, _)
SumLen(f, S) ==
    IF S = {} THEN 0
    ELSE LET k == CHOOSE x \in S : TRUE IN Len(f[k]) + SumLen(f, S \ {k})

\* C7: find_sections returns a map whose key set is exactly the eleven
\* section names, and a document without any recognised heading line maps
\* every one of them to the empty string.
C7_KeySet ==
    Segmented =>
        /\ DOMAIN sections = ElevenSections
        /\ Cardinality(DOMAIN sections) = 11
        /\ HeadingIdx = {} => \A k \in ElevenSections : sections[k] = <<>>

C7_Witness ==
    /\ Segmented
    /\ HeadingIdx = {}
    /\ Len(raw) >= 2
    /\ \E i \in DOMAIN raw : ~IsBlankLine(raw[i])

\* C8 as stated: with pairwise distinct headings, the body of a section is
\* exactly the lines strictly between its heading and the next heading, and
\* a section without heading is empty.
C8_ExactLines ==
    (Segmented /\ DistinctHeadings) =>
        /\ \A i \in HeadingIdx : sections[HeadingName(i)] = Join(Between(i))
        /\ \A n \in ElevenSections :
              (\A i \in HeadingIdx : HeadingName(i) # n) => sections[n] = <<>>

\* C8 as amended: the body is those lines, each stripped, without the blank
\* lines that start and end the span; no line is in two bodies; a section
\* without heading is empty.
C8_TrimmedLines ==
    (Segmented /\ DistinctHeadings) =>
        /\ \A i \in HeadingIdx : sections[HeadingName(i)] = BetweenTrimmed(i)
        /\ \A n \in ElevenSections :
              (\A i \in HeadingIdx : HeadingName(i) # n) => sections[n] = <<>>
        /\ SumLen(sections, DOMAIN sections)
              <= Cardinality(DOMAIN raw \ HeadingIdx)

\* 'Education' then 'Skills', no other heading, lines after each of them
C8_Witness ==
    /\ Segmented
    /\ \E i, j \in HeadingIdx :
          /\ HeadingIdx = {i, j}
          /\ i + 1 < j
          /\ j < Len(raw)
          /\ HeadingName(i) = "Education"
          /\ HeadingName(j) = "Skills & Interests"
    /\ sections["Education"] # <<>>
    /\ sections["Skills & Interests"] # <<>>

\* the lines on which the heading of section n occurs
Occurrences(n) == {i \in HeadingIdx : HeadingName(i) = n}

LastOccurrence(n) ==
    CHOOSE i \in Occurrences(n) : \A j \in Occurrences(n) : j <= i

\* C12: whatever number of times the heading of a section occurs, the body
\* of the section is the span that follows the last occurrence, up to the
\* next recognised heading or the end of the document (stripped as every
\* span is); what follows an earlier occurrence is not kept under it.
C12_LastOccurrenceWins ==
    Segmented =>
        \A n \in ElevenSections :
            Occurrences(n) # {} =>
                sections[n] = BetweenTrimmed(LastOccurrence(n))

\* a heading occurs twice, with different text after each occurrence
C12_Witness ==
    /\ Segmented
    /\ \E n \in ElevenSections : \E i, j \in Occurrences(n) :
          /\ i < j
          /\ BetweenTrimmed(i) # <<>>
          /\ BetweenTrimmed(j) # <<>>
          /\ BetweenTrimmed(i) # BetweenTrimmed(j)
          /\ sections[n] # BetweenTrimmed(i)

----------------------------------------------------------------------------
(* Properties of call_llm *)

CallReturned == pc = "returned"

\* '' for Professional Summary, [] for every other section
Sentinel(section) ==
    IF section = "Professional Summary" THEN JString(0) ELSE JArray(0)

\* the body is empty or holds blanks only
BlankBody(body) == \A i \in DOMAIN body : IsBlankLine(body[i])

\* the value the object `obj` holds for `section`: the value of its last
\* member named `section`, or the whole object when it has none
ObjectOf(obj) ==
    LET ms == {i \in 2..(Len(obj) - 1) : TRUE}
        keys == {obj[i].key : i \in ms}
        last(k) == CHOOSE i \in ms :
                      obj[i].key = k /\ \A j \in ms : obj[j].key = k => j <= i
    IN  [k \in keys |-> obj[last(k)].val]

ValueIn(obj, section) ==
    IF section \in DOMAIN ObjectOf(obj) THEN ObjectOf(obj)[section]
    ELSE [kind |-> "object", len |-> Cardinality(DOMAIN ObjectOf(obj)),
          body |-> ObjectOf(obj)]

\* text that holds no JSON object
NonJson(s) ==
    \A i, j \in DOMAIN s : i <= j => ~IsJsonObject(SubSeq(s, i, j))

\* C2: for a non-empty body, a response without brace-delimited span, or
\* whose span is not valid JSON, makes call_llm return exactly the section's
\* empty sentinel, and nothing is raised.
C2_MalformedGivesSentinel ==
    (/\ CallReturned
     /\ ~BlankBody(req.body)
     /\ \/ ~HasBraceSpan(stdout)
        \/ ~IsJsonObject(BraceSpan(stdout)))
    => /\ ret.kind = "return"
       /\ ret.value = Sentinel(req.section)

C2_Witness ==
    /\ CallReturned
    /\ ~BlankBody(req.body)
    /\ HasBraceSpan(stdout)
    /\ ~IsJsonObject(BraceSpan(stdout))
    /\ req.section = "Professional Summary"
    /\ ret.value = JString(0)

\* C3 as stated: when the response is non-JSON text, one valid JSON object,
\* non-JSON text (braces allowed in the surrounding text), call_llm returns
\* the value the object holds for the section, or the whole object.
C3_ObjectAmidText ==
    (CallReturned /\ ret.called) =>
        \A i, j \in DOMAIN stdout :
            (/\ i < j
             /\ IsJsonObject(SubSeq(stdout, i, j))
             /\ NonJson(SubSeq(stdout, 1, i - 1))
             /\ NonJson(SubSeq(stdout, j + 1, Len(stdout))))
            => /\ ret.kind = "return"
               /\ ret.value = ValueIn(SubSeq(stdout, i, j), req.section)

\* What the code does for C3's responses: the same, as long as the text
\* before the object has no opening brace and the text after it no closing
\* brace.
C3_NoStrayBrace ==
    (CallReturned /\ ret.called) =>
        \A i, j \in DOMAIN stdout :
            (/\ i < j
             /\ IsJsonObject(SubSeq(stdout, i, j))
             /\ \A k \in 1..(i - 1) : stdout[k] # TOpen
             /\ \A k \in (j + 1)..Len(stdout) : stdout[k] # TClose)
            => /\ ret.kind = "return"
               /\ ret.value = ValueIn(SubSeq(stdout, i, j), req.section)

\* C4: an empty or whitespace-only body gives the section's empty sentinel
\* and no external call is made.
C4_BlankBodyShortCircuits ==
    (CallReturned /\ BlankBody(req.body)) =>
        /\ ret.kind = "return"
        /\ ret.value = Sentinel(req.section)
        /\ ~ret.called
        /\ calls = <<>>
        /\ stdout = <<>>

C4_Witness ==
    /\ CallReturned
    /\ req.body # <<>>
    /\ BlankBody(req.body)
    /\ ret.value = JArray(0)
    /\ calls = <<>>

\* the shape a section's value is expected to have
ExpectedKind(section) ==
    IF section = "Professional Summary" THEN "string" ELSE "array"

\* C10 as stated: every value call_llm returns is the section's empty
\* sentinel or a JSON value of the section's expected shape.
C10_ExpectedShape ==
    CallReturned =>
        /\ ret.kind = "return"
        /\ \/ ret.value = Sentinel(req.section)
           \/ ret.value.kind = ExpectedKind(req.section)

\* C10 as amended: every value call_llm returns is the section's empty
\* sentinel, or, when the brace span of the response is a JSON object, the
\* value that object holds under the section's name, of whatever shape, or
\* the whole object when it has no such key.
C10_SentinelOrParsed ==
    CallReturned =>
        /\ ret.kind = "return"
        /\ \/ ret.value = Sentinel(req.section)
           \/ /\ ret.called
              /\ HasBraceSpan(stdout)
              /\ IsJsonObject(BraceSpan(stdout))
              /\ ret.value = ValueIn(BraceSpan(stdout), req.section)

\* a valid object without the section's key: the whole object is returned
C10_Witness ==
    /\ CallReturned
    /\ ret.called
    /\ req.section = "Education"
    /\ ret.value.kind = "object"
    /\ ret.value.len = 2

----------------------------------------------------------------------------
(* Properties of the enrichment rules *)

\* a value is empty when it is [], "", {}, null, 0 or false, which is when
\* Python's `if value:` fails
Empty(v) ==
    v \in {JArray(0), JString(0), JObject(<<>>), JNull, JNumber(0),
           JBool(FALSE)}

\* a Work Experience line with project, built, developed, created or
\* designed as a whole word, whatever the case
ProjectLine(ln) ==
    \E i \in DOMAIN ln :
        ln[i] \in {"project", "Project", "built", "Built", "developed",
                   "Developed", "created", "Created", "designed", "Designed"}

\* a line with "cert" in it, whatever the case
CertLine(ln) ==
    \E i \in DOMAIN ln :
        ln[i] \in {"Certified", "certified", "certificate", "Certificate",
                   "Certifications", "certifications", "concert"}

ProjectLines == SelectSeq(sections["Work Experience"], ProjectLine)

CertLines ==
    SelectSeq(sections["Skills & Interests"], CertLine)
    \o SelectSeq(sections["Work Experience"], CertLine)

\* C5: with a non-empty Projects (Certifications) value, ensure_projects
\* (ensure_certifications) leaves the record unchanged and calls nothing;
\* with both values non-empty no step of any further pass changes the
\* record.
C5_PopulatedIsNoOp ==
    [][ /\ (pc = "ensure_projects" /\ ~Empty(out["Projects"]))
           => (out' = out /\ calls' = calls)
        /\ (pc = "ensure_certs" /\ ~Empty(out["Certifications"]))
           => (out' = out /\ calls' = calls)
        /\ (~Empty(out["Projects"]) /\ ~Empty(out["Certifications"]))
           => (out' = out /\ calls' = calls) ]_vars

\* a pass has run on populated Projects and Certifications
C5_Witness ==
    /\ pc = "placeholders"
    /\ ~Empty(out["Projects"])
    /\ ~Empty(out["Certifications"])
    /\ ProjectLines # <<>>
    /\ CertLines # <<>>
    /\ calls = <<>>

\* the step of one enrichment rule on an empty value, as C6 states it
EnrichStep(key, lines) ==
    IF lines = <<>>
    THEN out' = out /\ calls' = calls
    ELSE /\ calls' = Append(calls, [section |-> key, prompt |-> key,
                                    body |-> lines])
         /\ req' = [section |-> key, body |-> lines]
         /\ ret'.kind = "return"
         /\ ret' = call_llm(key, lines, stdout')
         /\ out' = IF Empty(ret'.value) THEN out
                   ELSE [out EXCEPT ![key] = ret'.value]

----------------------------------------------------------------------------
(* Properties of the contact step *)

ContactDone == pc = "title"

EmailField == out["Contact Information"]["Email"]

LineHasEmail(ln) == \E k \in DOMAIN ln : EmailIn(ln[k]) # ""

\* the first email match of a line that has one
FirstEmailOfLine(ln) ==
    EmailIn(ln[CHOOSE k \in DOMAIN ln :
                  /\ EmailIn(ln[k]) # ""
                  /\ \A m \in 1..(k - 1) : EmailIn(ln[m]) = ""])

\* the first email match among the first n lines of a text, "" if none
FirstEmailWithin(text, n) ==
    LET idx == {i \in DOMAIN text : i <= n /\ LineHasEmail(text[i])}
    IN  IF idx = {} THEN ""
        ELSE FirstEmailOfLine(text[CHOOSE i \in idx : \A j \in idx : i <= j])

\* C9 as stated: for every document with an email in it, the Email field is
\* the first email of the document, whichever name strategy fired and
\* whichever text was handed to extract_contact.
C9_FirstEmailOfDocument ==
    (ContactDone /\ \E i \in DOMAIN raw : LineHasEmail(raw[i]))
    => EmailField = <<FirstEmailWithin(raw, Len(raw))>>

\* C9 as amended: the Email field is the first email match within the first
\* 30 lines of the contact text, which is the Contact Information body when
\* that is non-empty and the whole document otherwise, and is "" when these
\* lines hold none; whichever name strategy fired.
C9_FirstEmailOfContactText ==
    ContactDone =>
        LET body == sections["Contact Information"]
        IN  EmailField =
               <<FirstEmailWithin(IF body # <<>> THEN body ELSE raw, 30)>>

\* the email of the Contact Information section, found while the name came
\* from a PERSON entity and an earlier email stands before the heading
C9_Witness ==
    /\ ContactDone
    /\ sections["Contact Information"] # <<>>
    /\ ret.note = "person entity"
    /\ EmailField = <<"ops@corp.io">>
    /\ LineHasEmail(raw[1])

\* The three strategies as options: <<>> when the strategy has nothing, a
\* one-element sequence holding the words of the name otherwise.
NameLineOption ==
    LET named == SelectSeq(Take(HeadLines(ContactText), NameWindow),
                           IsNameLine)
    IN  IF named = <<>> THEN <<>> ELSE << Words(named[1]) >>

PersonOption ==
    LET ok == SelectSeq(doc, LAMBDA e :
                  /\ e.label = "PERSON"
                  /\ Len(e.text) >= 2
                  /\ \A i \in DOMAIN e.text :
                        Lower(e.text[i]) \notin LOCATION_STOP)
    IN  IF ok = <<>> THEN <<>>
        ELSE << Longest([i \in DOMAIN ok |-> ok[i].text]) >>

EmailOption ==
    IF LocalWords(EmailField[1]) = <<>> THEN <<>>
    ELSE << LocalWords(EmailField[1]) >>

\* the first option that has something, <<>> when none has
FirstOption == NameLineOption \o PersonOption \o EmailOption

FirstNameField == out["Contact Information"]["First Name"]
LastNameField == out["Contact Information"]["Last Name"]

C13_WitnessNoName ==
    /\ ContactDone
    /\ Len(raw) > NameWindow
    /\ FirstOption = <<>>
    /\ FirstNameField = <<"">>

----------------------------------------------------------------------------
(* Properties of the pipeline *)

ExtractedSections ==
    {"Professional Summary", "Work Experience", "Education",
     "Skills & Interests", "Certifications", "Projects"}

\* the statements of the main block, each of which runs whenever control
\* is at it
ProgramPoints ==
    {"segment", "contact", "title", "ensure_projects", "ensure_certs",
     "placeholders"} \cup ExtractedSections

\* C1: whatever the document and whatever each response is (no braces, a
\* brace span that is not JSON, a valid object), no exception ends the
\* pipeline and control is at a statement of the main block until the end;
\* at the end the record has exactly the eleven section keys, and every
\* extracted section with a body was submitted, whatever the responses to
\* the sections before it.
C1_RunsToCompletion ==
    /\ pc # "aborted"
    /\ pc # "done" => pc \in ProgramPoints
    /\ pc = "done" =>
          /\ DOMAIN out = ElevenSections
          /\ \A sec \in ExtractedSections :
                sections[sec] # <<>> =>
                    \E i \in DOMAIN calls :
                        /\ calls[i].section = sec
                        /\ calls[i].body = sections[sec]

\* the summary's response was malformed, and the sections after it were
\* still extracted
C1_Witness ==
    /\ pc = "done"
    /\ sections["Professional Summary"] # <<>>
    /\ out["Professional Summary"] = JString(0)
    /\ sections["Work Experience"] # <<>>
    /\ out["Work Experience"].kind = "object"
    /\ out["Projects"] = JArray(1)
    /\ Len(calls) >= 3

----------------------------------------------------------------------------
(* Properties of the trace of external calls *)

\* the order in which the main block extracts the sections
PrimaryOrder ==
    <<"Professional Summary", "Work Experience", "Education",
      "Skills & Interests", "Certifications", "Projects">>

\* the sections whose extraction statement has run
PrimaryDone ==
    CASE pc \in {"segment", "contact", "title"} -> <<>>
      [] pc \in ExtractedSections ->
            SubSeq(PrimaryOrder, 1,
                   (CHOOSE i \in DOMAIN PrimaryOrder : PrimaryOrder[i] = pc) - 1)
      [] OTHER -> PrimaryOrder

\* the calls the primary pass has to have made so far: one per section
\* with a body, in extraction order
PrimaryCalls ==
    LET due == SelectSeq(PrimaryDone, LAMBDA sec : sections[sec] # <<>>)
    IN  [i \in DOMAIN due |-> [section |-> due[i], body |-> sections[due[i]]]]

CallTrace ==
    [i \in DOMAIN calls |-> [section |-> calls[i].section,
                             body |-> calls[i].body]]

\* the calls made after those of the primary pass, by section
EnrichmentCalls ==
    [i \in 1..(Len(calls) - Len(PrimaryCalls)) |->
        calls[Len(PrimaryCalls) + i].section]

\* C11: at every point of a run the calls made so far are exactly one call
\* per already-extracted section with a non-empty body, in extraction order
\* and with that body, followed (only once all six extractions are over) by
\* at most one Projects call of ensure_projects and then at most one
\* Certifications call of ensure_certifications; no other section is ever
\* the subject of a call.
C11_CallTrace ==
    pc # "segment" =>
        /\ Len(calls) >= Len(PrimaryCalls)
        /\ SubSeq(CallTrace, 1, Len(PrimaryCalls)) = PrimaryCalls
        /\ \A i \in DOMAIN calls : calls[i].section \in ExtractedSections
        /\ EnrichmentCalls \in
              CASE PrimaryDone # PrimaryOrder \/ pc = "ensure_projects" ->
                      {<<>>}
                [] pc = "ensure_certs" -> {<<>>, <<"Projects">>}
                [] OTHER -> {<<>>, <<"Projects">>, <<"Certifications">>,
                             <<"Projects", "Certifications">>}

\* a run with two primary calls, the second answered without JSON and not
\* repeated, then both enrichment calls
C11_Witness ==
    /\ pc = "done"
    /\ PrimaryCalls = << [section |-> "Professional Summary",
                          body |-> sections["Professional Summary"]],
                         [section |-> "Work Experience",
                          body |-> sections["Work Experience"]] >>
    /\ out["Work Experience"] = JArray(0)
    /\ EnrichmentCalls = <<"Projects", "Certifications">>

====
